---------------------------- MODULE Spec2Model ----------------------------
(***************************************************************************)
(* A model of flytekit/core/map_task.py: MapPythonTask, the task that maps *)
(* a single-element task over collections.  execute() runs either one slot *)
(* of the collection (TASK_EXECUTION, _execute_map_task, slot index read   *)
(* from the process environment) or the whole collection locally           *)
(* (_raw_execute).                                                         *)
(*                                                                         *)
(* Python values are modelled as follows.  A str that the code parses is a *)
(* sequence of one-character strings; a str used only as a key (a variable *)
(* name, a parameter name) is a TLA+ string.  A list is a sequence; the    *)
(* value an operation returns is tagged (PyNone, PyList, PyTuple) so that  *)
(* a bare list, a tuple of lists and None stay distinct.  A call that can  *)
(* raise returns a record with ok = FALSE and the exception's name.        *)
(***************************************************************************)
EXTENDS Integers, Sequences, FiniteSets, TLC

\* ------------------------------------------------------------------ bounds

\* Longest input collection.
MaxLen == 3

\* Longest value of an environment variable, in characters.
MaxStrLen == 2

\* ----------------------------------------------------------- Python values

PyNone == [tag |-> "None", items |-> <<>>]

PyList(s) == [tag |-> "list", items |-> s]

PyTuple(s) == [tag |-> "tuple", items |-> s]

\* The value of a variable no statement has assigned yet.
Unassigned == [tag |-> "unassigned", items |-> <<>>]

Ok(v) == [ok |-> TRUE, val |-> v, err |-> "none"]

Raise(e) == [ok |-> FALSE, val |-> 0, err |-> e]

\* list.__getitem__ with an int: positions -len .. len-1 are valid, a negative
\* position counts from the end; anything else raises IndexError.
PyIndexValid(c, n) == -Len(c) <= n /\ n < Len(c)

\* The 0-based position c[n] reads.
PyIndexPos(c, n) == IF n >= 0 THEN n ELSE Len(c) + n

PyGetItem(c, n) == c[PyIndexPos(c, n) + 1]

\* ------------------------------------------------------------------ int(str)

Digits == {"0", "1", "2", "3", "4", "5", "6", "7", "8", "9"}

Whitespace == {" "}

DigitVal(ch) ==
  CASE ch = "0" -> 0 [] ch = "1" -> 1 [] ch = "2" -> 2 [] ch = "3" -> 3
    [] ch = "4" -> 4 [] ch = "5" -> 5 [] ch = "6" -> 6 [] ch = "7" -> 7
    [] ch = "8" -> 8 [] ch = "9" -> 9

\* str.strip(): int() ignores leading and trailing whitespace.
Strip(s) ==
  LET keep == {j \in 1..Len(s) : s[j] \notin Whitespace}
  IN IF keep = {} THEN <<>>
     ELSE LET lo == CHOOSE j \in keep : \A m \in keep : j <= m
              hi == CHOOSE j \in keep : \A m \in keep : m <= j
          IN SubSeq(s, lo, hi)

\* The digits of an integer literal: decimal digits, single underscores
\* allowed between digits only.
IsDigitString(d) ==
  /\ d /= <<>>
  /\ \A j \in 1..Len(d) : d[j] \in Digits \cup {"_"}
  /\ d[1] /= "_" /\ d[Len(d)] /= "_"
  /\ \A j \in 1..(Len(d) - 1) : ~(d[j] = "_" /\ d[j + 1] = "_")

RECURSIVE DecimalValue(_)
DecimalValue(d) ==
  IF d = <<>> THEN 0
  ELSE LET front == SubSeq(d, 1, Len(d) - 1)
           last == d[Len(d)]
       IN IF last = "_" THEN DecimalValue(front)
          ELSE 10 * DecimalValue(front) + DigitVal(last)

\* int(x) for x a str (a character sequence) or None (opt.some = FALSE):
\* TypeError for None, ValueError for a str that is no integer literal.
PyInt(opt) ==
  IF ~opt.some THEN Raise("TypeError")
  ELSE LET t == Strip(opt.v)
           signed == t /= <<>> /\ t[1] \in {"+", "-"}
           body == IF signed THEN SubSeq(t, 2, Len(t)) ELSE t
       IN IF ~IsDigitString(body) THEN Raise("ValueError")
          ELSE IF signed /\ t[1] = "-" THEN Ok(0 - DecimalValue(body))
          ELSE Ok(DecimalValue(body))

\* -------------------------------------------------------------- os.environ

BATCH_JOB_ARRAY_INDEX_OFFSET == "BATCH_JOB_ARRAY_INDEX_OFFSET"

BATCH_JOB_ARRAY_INDEX_VAR_NAME == "BATCH_JOB_ARRAY_INDEX_VAR_NAME"

\* The variable the compute environment sets to the job's raw array index.
AWS_BATCH_JOB_ARRAY_INDEX == "AWS_BATCH_JOB_ARRAY_INDEX"

NoneOpt == [some |-> FALSE, v |-> <<>>]

Some(x) == [some |-> TRUE, v |-> x]

\* os.environ.get(name): the variable's value, or None when it is not set.
EnvironGet(env, name) == IF name \in DOMAIN env THEN Some(env[name]) ELSE NoneOpt

\* "is not None" in place of truthiness: an empty value counts as set.
TruthyIsNotNone(opt) == opt.some

\* bool(x) of an os.environ.get result: None and "" are falsy.
Truthy(opt) == opt.some /\ opt.v /= <<>>

\* _compute_array_job_index reading AWS_BATCH_JOB_ARRAY_INDEX itself, without
\* going through BATCH_JOB_ARRAY_INDEX_VAR_NAME.
ComputeArrayJobIndexFixedName(env) ==
  LET off == EnvironGet(env, BATCH_JOB_ARRAY_INDEX_OFFSET)
      offset == IF Truthy(off) THEN PyInt(off) ELSE Ok(0)
  IN IF ~offset.ok THEN offset
     ELSE LET raw == PyInt(EnvironGet(env, AWS_BATCH_JOB_ARRAY_INDEX))
          IN IF ~raw.ok THEN raw ELSE Ok(offset.val + raw.val)

\* _compute_array_job_index.  os.environ.get(None) raises TypeError (the key
\* must be a str), as does int(None).
ComputeArrayJobIndex(env) ==
  LET off == EnvironGet(env, BATCH_JOB_ARRAY_INDEX_OFFSET)
      offset == IF Truthy(off) THEN PyInt(off) ELSE Ok(0)
      name == EnvironGet(env, BATCH_JOB_ARRAY_INDEX_VAR_NAME)
  IN IF ~offset.ok THEN offset
     ELSE IF ~name.some THEN Raise("TypeError")
     ELSE LET raw == PyInt(EnvironGet(env, name.v))
          IN IF ~raw.ok THEN raw ELSE Ok(offset.val + raw.val)


\* --------------------------------------------------------------- interfaces

\* An interface is [inputs, outputs], each a sequence of [name, type] in
\* declaration order (a dict keeps insertion order).  A type is a base type
\* under some number of List[...]: depth 0 is the base type itself.
ScalarType(b) == [base |-> b, depth |-> 0]

ListType(t) == [base |-> t.base, depth |-> t.depth + 1]

Var(n, t) == [name |-> n, type |-> t]

\* dict.keys(), in order.
Keys(vars) == [j \in 1..Len(vars) |-> vars[j].name]

KeySet(vars) == {vars[j].name : j \in 1..Len(vars)}

\* dict[k] for k a key of the dict.
Lookup(vars, k) == (CHOOSE j \in 1..Len(vars) : vars[j].name = k)

\* transform_interface_to_list_interface: same names, same order, every type
\* T replaced by List[T].
TransformInterfaceToListInterface(iface) ==
  [inputs |-> [j \in 1..Len(iface.inputs) |->
                 Var(iface.inputs[j].name, ListType(iface.inputs[j].type))],
   outputs |-> [j \in 1..Len(iface.outputs) |->
                 Var(iface.outputs[j].name, ListType(iface.outputs[j].type))]]

\* ExecutionState.Mode, and None for a context without execution state.
\* LOCAL_TASK_EXECUTION stands for any mode the code does not name.
NoExecutionState == "None"

TASK_EXECUTION == "TASK_EXECUTION"

LOCAL_WORKFLOW_EXECUTION == "LOCAL_WORKFLOW_EXECUTION"

LOCAL_TASK_EXECUTION == "LOCAL_TASK_EXECUTION"

Modes == {NoExecutionState, TASK_EXECUTION, LOCAL_WORKFLOW_EXECUTION, LOCAL_TASK_EXECUTION}

\* MapPythonTask.__init__: self.interface is the list interface of the wrapped
\* task's interface; run_task.interface is the wrapped task's own.
MapInterface(rt) == TransformInterfaceToListInterface(rt.interface)

\* _outputs_interface answering with the wrapped task's interface in every
\* context.
OutputsInterfaceAlwaysRunTask(state, rt) == rt.interface.outputs

\* MapPythonTask._outputs_interface
OutputsInterface(state, rt) ==
  IF state /= NoExecutionState /\ state = LOCAL_WORKFLOW_EXECUTION
  THEN MapInterface(rt).outputs
  ELSE rt.interface.outputs

\* MapPythonTask.get_type_for_output_var(k, v): a KeyError for a name that is
\* no output.
GetTypeForOutputVar(state, rt, k) ==
  LET outs == IF state /= NoExecutionState /\ state = LOCAL_WORKFLOW_EXECUTION
              THEN MapInterface(rt).outputs
              ELSE rt.interface.outputs
  IN IF k \in KeySet(outs) THEN Ok(outs[Lookup(outs, k)].type)
     ELSE Raise("KeyError")

\* ------------------------------------------------------ the wrapped task

\* run_task.execute(**inputs), the element computation.  It returns its
\* declared outputs as a sequence, one value per output, and raises for the
\* inputs the task fails on.  Output x of inputs (a) is 2*a + 10*x, so that a
\* task with one input and one output doubles its input.
Weight(j) == IF j = 1 THEN 2 ELSE 100

RECURSIVE WeightedSum(_, _, _)
WeightedSum(names, inputs, j) ==
  IF j > Len(names) THEN 0
  ELSE Weight(j) * inputs[names[j]] + WeightedSum(names, inputs, j + 1)

ElementValue(rt, inputs, x) ==
  WeightedSum(Keys(rt.interface.inputs), inputs, 1) + 10 * x

ElementFails(rt, inputs) ==
  \E n \in DOMAIN inputs : inputs[n] \in rt.fails

ElementExecute(rt, inputs) ==
  IF ElementFails(rt, inputs) THEN Raise("ElementExecutionFailure")
  ELSE IF rt.interface.outputs = <<>> THEN Ok(PyNone)
  ELSE Ok(PyTuple([x \in 1..Len(rt.interface.outputs) |->
                     ElementValue(rt, inputs, x - 1)]))

\* ------------------------------------------------------------------- state

VARIABLES
  execution_state,  \* FlyteContext.current_context().execution_state: a mode or None
  environ,          \* os.environ
  run_task,         \* self._run_task: [interface, fails]
  kwargs,           \* the arguments of execute(): parameter name -> collection
  pc,               \* "start", "loop" (inside _raw_execute's for), "returned", "raised"
  task_index,       \* _execute_map_task's task_index
  count,            \* len(kwargs[any_input_key]), the bound of range()
  i,                \* _raw_execute's loop variable
  outputs,          \* _raw_execute's outputs: a list of lists
  calls,            \* history: every run_task.execute call, [pos, inputs], in order
  reads,            \* history: the (parameter, 0-based position) pairs indexed
  result,           \* what execute() returned
  error,            \* the exception execute() raised, "none" if none
  query             \* the answer of the last output-shape query

vars == <<execution_state, environ, run_task, kwargs, pc, task_index, count, i,
          outputs, calls, reads, result, error, query>>

NoQuery == [kind |-> "none", answer |-> Raise("none")]


\* ------------------------------------------------------------------ inputs

\* The wrapped tasks considered: no, one or two inputs; no, one or two outputs.
InputChoices == {<<>>, <<"a">>, <<"a", "b">>}

OutputChoices == {<<>>, <<"o0">>, <<"o0", "o1">>}

TypeNames == {"int", "str"}

IntVars(names) == [j \in 1..Len(names) |-> Var(names[j], ScalarType("int"))]

\* The values a collection bound to parameter n may hold.
InputValues(n) == IF n = "a" THEN {1, 2, 3} ELSE {1, 2}

Collections(V, n) == UNION {[1..m -> V] : m \in 0..n}

NamesOf(names) == {names[j] : j \in 1..Len(names)}

\* Every binding of the parameters to collections of up to MaxLen values; the
\* collections of one call need not be equally long.
KwargsChoices(names) ==
  {[n \in NamesOf(names) |-> IF n = "a" THEN ca ELSE cb] :
     ca \in Collections(InputValues("a"), MaxLen),
     cb \in Collections(InputValues("b"), MaxLen)}

\* What a behaviour starts from, whatever the topology.
Fresh ==
  /\ pc = "start"
  /\ task_index = 0
  /\ count = 0
  /\ i = 0
  /\ outputs = <<>>
  /\ calls = <<>>
  /\ reads = {}
  /\ result = Unassigned
  /\ error = "none"
  /\ query = NoQuery

\* Local emulation: any context but TASK_EXECUTION; the environment plays no
\* part.  The wrapped task fails on no value, or on the value 2.
Init ==
  /\ execution_state \in Modes \ {TASK_EXECUTION}
  /\ environ = <<>>
  /\ \E ins \in InputChoices, outs \in OutputChoices, f \in {{}, {2}} :
       run_task = [interface |-> [inputs |-> IntVars(ins), outputs |-> IntVars(outs)],
                   fails |-> f]
  /\ kwargs \in KwargsChoices(Keys(run_task.interface.inputs))
  /\ Fresh

\* ----------------------------------------------------------------- actions

\* The inputs of one element call: kwargs[k][n] for every k in
\* self.interface.inputs.keys(), in order.  The first k whose collection has
\* no position n raises IndexError; the positions before it were read.
BadKeys(names, n) == {j \in 1..Len(names) : ~PyIndexValid(kwargs[names[j]], n)}

FirstBad(names, n) == CHOOSE j \in BadKeys(names, n) : \A m \in BadKeys(names, n) : j <= m

ReadsAt(names, n) ==
  LET upto == IF BadKeys(names, n) = {} THEN Len(names) ELSE FirstBad(names, n) - 1
  IN {<<names[j], PyIndexPos(kwargs[names[j]], n)>> : j \in 1..upto}

\* InstanceInputs reading position 0 whatever n is.
InstanceInputsFirst(names, n) == [k \in NamesOf(names) |-> kwargs[k][1]]

InstanceInputs(names, n) == [k \in NamesOf(names) |-> PyGetItem(kwargs[k], n)]

\* _execute_map_task (lines 134-138), as one step.
ExecuteMapTask ==
  LET idx == ComputeArrayJobIndex(environ)
      names == Keys(MapInterface(run_task).inputs)
  IN IF ~idx.ok
     THEN /\ pc' = "raised"
          /\ error' = idx.err
          /\ UNCHANGED <<task_index, calls, reads, result>>
     ELSE /\ task_index' = idx.val
          /\ reads' = reads \cup ReadsAt(names, idx.val)
          /\ IF BadKeys(names, idx.val) /= {}
             THEN /\ pc' = "raised"
                  /\ error' = "IndexError"
                  /\ UNCHANGED <<calls, result>>
             ELSE LET map_task_inputs == InstanceInputs(names, idx.val)
                      o == ElementExecute(run_task, map_task_inputs)
                  IN /\ calls' = Append(calls, [pos |-> idx.val, inputs |-> map_task_inputs])
                     /\ IF o.ok
                        THEN pc' = "returned" /\ result' = o.val /\ UNCHANGED error
                        ELSE pc' = "raised" /\ error' = o.err /\ UNCHANGED result

\* _raw_execute up to the for statement (lines 145-158): the accumulators, the
\* first input key, the bound of range().  A task without inputs has no first
\* key: list(...)[0] raises IndexError.
RawExecuteBegin ==
  LET keys == Keys(run_task.interface.inputs)
  IN /\ outputs' = [x \in 1..Len(Keys(OutputsInterface(execution_state, run_task))) |-> <<>>]
     /\ IF keys = <<>>
        THEN pc' = "raised" /\ error' = "IndexError" /\ UNCHANGED count
        ELSE pc' = "loop" /\ count' = Len(kwargs[keys[1]]) /\ UNCHANGED error

\* execute (lines 80-85)
Execute ==
  /\ pc = "start"
  /\ IF execution_state /= NoExecutionState /\ execution_state = TASK_EXECUTION
     THEN ExecuteMapTask /\ UNCHANGED <<count, i, outputs>>
     ELSE RawExecuteBegin /\ UNCHANGED <<task_index, i, calls, reads, result>>
  /\ UNCHANGED <<execution_state, environ, run_task, kwargs, query>>

\* outputs_expected (lines 145-147)
OutputsExpected == MapInterface(run_task).outputs /= <<>>

\* Accumulate with insert(0, ...) in place of append: newest value first.
AccumulatePrepend(outs, o) == [x \in 1..Len(outs) |-> <<o.items[x]>> \o outs[x]]

\* outputs[x].append(o[x]) for every accumulator x (lines 164-165).
Accumulate(outs, o) == [x \in 1..Len(outs) |-> Append(outs[x], o.items[x])]

\* RawExecuteIteration with the element call wrapped in try/except/continue:
\* a failing position is skipped and the loop goes on.
RawExecuteIterationSwallow ==
  /\ pc = "loop"
  /\ i < count
  /\ LET names == Keys(MapInterface(run_task).inputs)
     IN /\ reads' = reads \cup ReadsAt(names, i)
        /\ IF BadKeys(names, i) /= {}
           THEN /\ pc' = "raised"
                /\ error' = "IndexError"
                /\ UNCHANGED <<i, outputs, calls>>
           ELSE LET single_instance_inputs == InstanceInputs(names, i)
                    o == ElementExecute(run_task, single_instance_inputs)
                IN /\ calls' = Append(calls, [pos |-> i, inputs |-> single_instance_inputs])
                   /\ outputs' = IF o.ok /\ OutputsExpected
                                 THEN Accumulate(outputs, o.val)
                                 ELSE outputs
                   /\ i' = i + 1
                   /\ UNCHANGED <<pc, error>>
  /\ UNCHANGED <<execution_state, environ, run_task, kwargs, task_index, count,
                 result, query>>

\* One pass of the for body (lines 159-165).
RawExecuteIteration ==
  /\ pc = "loop"
  /\ i < count
  /\ LET names == Keys(MapInterface(run_task).inputs)
     IN /\ reads' = reads \cup ReadsAt(names, i)
        /\ IF BadKeys(names, i) /= {}
           THEN /\ pc' = "raised"
                /\ error' = "IndexError"
                /\ UNCHANGED <<i, outputs, calls>>
           ELSE LET single_instance_inputs == InstanceInputs(names, i)
                    o == ElementExecute(run_task, single_instance_inputs)
                IN /\ calls' = Append(calls, [pos |-> i, inputs |-> single_instance_inputs])
                   /\ IF ~o.ok
                      THEN pc' = "raised" /\ error' = o.err /\ UNCHANGED <<i, outputs>>
                      ELSE /\ outputs' = IF OutputsExpected
                                         THEN Accumulate(outputs, o.val)
                                         ELSE outputs
                           /\ i' = i + 1
                           /\ UNCHANGED <<pc, error>>
  /\ UNCHANGED <<execution_state, environ, run_task, kwargs, task_index, count,
                 result, query>>

\* RawResult without the len(outputs) == 1 case: always tuple(outputs).
RawResultAlwaysTuple(outs) == PyTuple([x \in 1..Len(outs) |-> PyList(outs[x])])

\* RawResult returning None when there is no accumulator.
RawResultNoneWhenEmpty(outs) ==
  IF Len(outs) = 0 THEN PyNone
  ELSE IF Len(outs) = 1 THEN PyList(outs[1])
  ELSE PyTuple([x \in 1..Len(outs) |-> PyList(outs[x])])

\* The value _raw_execute returns (lines 167-170).
RawResult(outs) ==
  IF Len(outs) = 1 THEN PyList(outs[1])
  ELSE PyTuple([x \in 1..Len(outs) |-> PyList(outs[x])])

\* The for statement is exhausted: return (lines 167-170).
RawExecuteReturn ==
  /\ pc = "loop"
  /\ i = count
  /\ result' = RawResult(outputs)
  /\ pc' = "returned"
  /\ UNCHANGED <<execution_state, environ, run_task, kwargs, task_index, count, i,
                 outputs, calls, reads, error, query>>

Next == Execute \/ RawExecuteIteration \/ RawExecuteReturn

Spec == Init /\ [][Next]_vars


\* ------------------------------------------------- distributed-slot execution

\* The characters an environment value is made of: digits, a sign, a blank.
EnvAlphabet == {"0", "1", "-", " "}

\* A value of a variable, or None for a variable that is not set.
EnvValueChoices == {NoneOpt} \cup {Some(x) : x \in Collections(EnvAlphabet, MaxStrLen)}

\* The values of BATCH_JOB_ARRAY_INDEX_OFFSET considered: not set, empty, no
\* integer (a blank, a lone sign), and the integers 1, -1 and 10.
OffsetChoices ==
  {NoneOpt, Some(<<>>), Some(<<" ">>), Some(<<"-">>), Some(<<"1">>),
   Some(<<"-", "1">>), Some(<<"1", "0">>)}

\* The variable BATCH_JOB_ARRAY_INDEX_VAR_NAME names, if it is set at all.
NoName == [some |-> FALSE, v |-> ""]

VarNameChoices == {NoName, Some(AWS_BATCH_JOB_ARRAY_INDEX), Some(BATCH_JOB_ARRAY_INDEX_OFFSET)}

MakeEnviron(off, name, raw) ==
  [k \in (IF off.some THEN {BATCH_JOB_ARRAY_INDEX_OFFSET} ELSE {})
         \cup (IF name.some THEN {BATCH_JOB_ARRAY_INDEX_VAR_NAME} ELSE {})
         \cup (IF raw.some THEN {AWS_BATCH_JOB_ARRAY_INDEX} ELSE {}) |->
     CASE k = BATCH_JOB_ARRAY_INDEX_OFFSET -> off.v
       [] k = BATCH_JOB_ARRAY_INDEX_VAR_NAME -> name.v
       [] k = AWS_BATCH_JOB_ARRAY_INDEX -> raw.v]

\* In a slot run the collection bound to a holds 10, 11, ... and the one bound
\* to b holds 20, 21, ...: every position holds a value of its own.
SlotCollection(n, len) == [j \in 1..len |-> (IF n = "a" THEN 10 ELSE 20) + j - 1]

SlotKwargsChoices(names) ==
  {[n \in NamesOf(names) |-> SlotCollection(n, IF n = "a" THEN la ELSE lb)] :
     la \in 0..MaxLen, lb \in 0..MaxLen}

\* One array job instance: TASK_EXECUTION, and an environment in which each of
\* the three variables is set or not.  The wrapped task
\* fails on no value, or on the value 11.
InitSlot ==
  /\ execution_state = TASK_EXECUTION
  /\ \E off \in OffsetChoices, name \in VarNameChoices, raw \in EnvValueChoices :
       environ = MakeEnviron(off, name, raw)
  /\ \E ins \in InputChoices, outs \in {<<"o0">>, <<"o0", "o1">>}, f \in {{}, {11}} :
       run_task = [interface |-> [inputs |-> IntVars(ins), outputs |-> IntVars(outs)],
                   fails |-> f]
  /\ kwargs \in SlotKwargsChoices(Keys(run_task.interface.inputs))
  /\ Fresh

NextSlot == Execute

SpecSlot == InitSlot /\ [][NextSlot]_vars


\* ------------------------------------------------------ output-shape queries

\* self._outputs_interface, read by a collaborator.
QueryOutputsInterface ==
  /\ query' = [kind |-> "outputs_interface",
               answer |-> Ok(OutputsInterface(execution_state, run_task))]
  /\ UNCHANGED <<execution_state, environ, run_task, kwargs, pc, task_index, count,
                 i, outputs, calls, reads, result, error>>

\* self.get_type_for_output_var(k, v) for an output name, or a name that is none.
QueryTypeForOutputVar ==
  /\ \E k \in {"o0", "o1", "zz"} :
       query' = [kind |-> k,
                 answer |-> GetTypeForOutputVar(execution_state, run_task, k)]
  /\ UNCHANGED <<execution_state, environ, run_task, kwargs, pc, task_index, count,
                 i, outputs, calls, reads, result, error>>

\* A map task over a task whose outputs have any of the types, in any context.
InitIface ==
  /\ execution_state \in Modes
  /\ environ = <<>>
  /\ \E outs \in OutputChoices :
       \E types \in [1..Len(outs) -> TypeNames] :
         run_task = [interface |->
                       [inputs |-> IntVars(<<"a">>),
                        outputs |-> [j \in 1..Len(outs) |->
                                       Var(outs[j], ScalarType(types[j]))]],
                     fails |-> {}]
  /\ kwargs = [n \in {"a"} |-> <<>>]
  /\ Fresh

NextIface == QueryOutputsInterface \/ QueryTypeForOutputVar

SpecIface == InitIface /\ [][NextIface]_vars


\* ------------------------------------------------------------------ claims

NumOutputs == Len(run_task.interface.outputs)

InputNames == Keys(run_task.interface.inputs)

LocalMode == execution_state /= TASK_EXECUTION

\* Every input collection of the call has the same length.
CommonLength ==
  \A a \in NamesOf(InputNames), b \in NamesOf(InputNames) : Len(kwargs[a]) = Len(kwargs[b])

\* The element inputs at 0-based position p: each collection's own value there.
InputsAt(p) == [k \in NamesOf(InputNames) |-> kwargs[k][p + 1]]

\* Output x (1-based) of the element computation on the inputs at position p.
ProducedAt(p, x) == ElementExecute(run_task, InputsAt(p)).val.items[x]

\* The accumulators a local-emulation result holds.
Accumulators(r) ==
  IF r.tag = "list" THEN <<r.items>> ELSE [x \in 1..Len(r.items) |-> r.items[x].items]

\* C1: local emulation over input collections of common length N, for a task
\* with at least one output, returns accumulators of length exactly N whose
\* entry at position p is what the element computation produced for the inputs
\* at position p.
C1_OutputsMirrorInputs ==
  (pc = "returned" /\ LocalMode /\ NumOutputs >= 1 /\ InputNames /= <<>> /\ CommonLength) =>
    LET N == Len(kwargs[InputNames[1]])
        accs == Accumulators(result)
    IN /\ Len(accs) = NumOutputs
       /\ \A x \in 1..NumOutputs :
            /\ Len(accs[x]) = N
            /\ \A p \in 0..(N - 1) : accs[x][p + 1] = ProducedAt(p, x)

\* The doubling task over [1, 2, 3] has returned [2, 4, 6].
C1_Witness ==
  /\ pc = "returned" /\ LocalMode
  /\ InputNames = <<"a">> /\ NumOutputs = 1
  /\ kwargs["a"] = <<1, 2, 3>>
  /\ result = PyList(<<2, 4, 6>>)

\* C2: the shape of a local-emulation result follows the number k of declared
\* outputs: for k = 1 the bare accumulator (a list of the produced values, one
\* per position), for k > 1 a tuple of exactly k accumulators, the x-th holding
\* the x-th declared output's values.
C2_ResultShape ==
  (pc = "returned" /\ LocalMode) =>
    /\ NumOutputs = 1 =>
         /\ result.tag = "list"
         /\ Len(result.items) = count
         /\ \A p \in 0..(count - 1) : result.items[p + 1] = ProducedAt(p, 1)
    /\ NumOutputs > 1 =>
         /\ result.tag = "tuple"
         /\ Len(result.items) = NumOutputs
         /\ \A x \in 1..NumOutputs :
              /\ result.items[x].tag = "list"
              /\ Len(result.items[x].items) = count
              /\ \A p \in 0..(count - 1) : result.items[x].items[p + 1] = ProducedAt(p, x)

\* Two outputs over three positions: a pair of 3-element lists.
C2_Witness ==
  /\ pc = "returned" /\ LocalMode
  /\ NumOutputs = 2 /\ count = 3
  /\ result.tag = "tuple" /\ Len(result.items) = 2
  /\ Len(result.items[1].items) = 3 /\ Len(result.items[2].items) = 3

\* The element computation has been called once per position 0 .. n-1, in order.
CalledOncePerPosition(n) ==
  /\ Len(calls) = n
  /\ \A p \in 1..n : calls[p].pos = p - 1 /\ calls[p].inputs = InputsAt(p - 1)

\* C3 as stated: for a task with no declared output, local emulation invokes
\* the element computation once per position and returns None.
C3_ReturnsNone ==
  (pc = "returned" /\ LocalMode /\ NumOutputs = 0) =>
    CalledOncePerPosition(count) /\ result = PyNone

\* C3 as amended: for a task with no declared output, local emulation invokes
\* the element computation once per position and returns the empty tuple (the
\* tuple of its zero accumulators), not None.
C3_ReturnsEmptyTuple ==
  (pc = "returned" /\ LocalMode /\ NumOutputs = 0) =>
    CalledOncePerPosition(count) /\ result = PyTuple(<<>>) /\ result /= PyNone

\* A task without outputs has run over three positions.
C3_Witness ==
  /\ pc = "returned" /\ LocalMode /\ NumOutputs = 0
  /\ count = 3 /\ Len(calls) = 3
  /\ result = PyTuple(<<>>)

\* C8, the states: the calls made so far are those for positions 0, 1, ... in
\* order, at most one ahead of the loop variable; a call whose inputs the
\* element fails on is the last call, execute has raised that failure, and
\* nothing was returned.
C8_State ==
  LocalMode =>
    /\ \A p \in 1..Len(calls) : calls[p].pos = p - 1 /\ calls[p].inputs = InputsAt(p - 1)
    /\ pc = "loop" => Len(calls) = i
    /\ \A p \in 1..Len(calls) :
         ElementFails(run_task, calls[p].inputs) =>
           /\ p = Len(calls)
           /\ pc = "raised"
           /\ error = "ElementExecutionFailure"
           /\ result = Unassigned
    /\ pc = "raised" => result = Unassigned

\* C8, the steps: a step makes at most one call, after the calls already made;
\* once execute has raised, no call is ever made and nothing is returned.
C8_Step ==
  /\ Len(calls') <= Len(calls) + 1
  /\ SubSeq(calls', 1, Len(calls)) = calls
  /\ pc = "raised" => (pc' = "raised" /\ calls' = calls /\ result' = result /\ error' = error)

\* C8: local emulation invokes the element computation for positions 0, 1, ...
\* in increasing order, one at a time; when the invocation at a position fails
\* that failure is raised, no later position is ever invoked and no partial
\* result is returned.
C8_SequentialFailFast == [](C8_State) /\ [][C8_Step]_vars

\* The element failed at position 1 of 3: two calls made, one value already
\* accumulated, nothing returned.
C8_Witness ==
  /\ pc = "raised" /\ error = "ElementExecutionFailure" /\ LocalMode
  /\ count = 3 /\ Len(calls) = 2
  /\ NumOutputs = 1 /\ Len(outputs[1]) = 1
  /\ result = Unassigned

\* C10 as stated: in local emulation, input collections of differing lengths
\* are rejected before the element computation is invoked for any position:
\* no call is made and no (truncated) result is returned.
C10_MismatchRejectedAtStart ==
  (LocalMode /\ ~CommonLength) => (calls = <<>> /\ pc /= "returned")


SlotMode == execution_state = TASK_EXECUTION

IsSet(n) == n \in DOMAIN environ

\* The text is an integer literal as int() reads it; its value.
IntegerText(t) == PyInt(Some(t)).ok

IntegerOf(t) == PyInt(Some(t)).val

\* execute has got past slot-index resolution.
IndexResolved == pc /= "start" /\ error \notin {"TypeError", "ValueError"}

\* The offset: the integer in BATCH_JOB_ARRAY_INDEX_OFFSET, 0 when the variable
\* is absent (or empty).
OffsetValue ==
  IF IsSet(BATCH_JOB_ARRAY_INDEX_OFFSET) /\ environ[BATCH_JOB_ARRAY_INDEX_OFFSET] /= <<>>
  THEN IntegerOf(environ[BATCH_JOB_ARRAY_INDEX_OFFSET])
  ELSE 0

\* The raw index: the integer in the variable BATCH_JOB_ARRAY_INDEX_VAR_NAME names.
RawIndexValue == IntegerOf(environ[environ[BATCH_JOB_ARRAY_INDEX_VAR_NAME]])

\* The index variable is named, set and holds an integer.
RawIndexGiven ==
  /\ IsSet(BATCH_JOB_ARRAY_INDEX_VAR_NAME)
  /\ IsSet(environ[BATCH_JOB_ARRAY_INDEX_VAR_NAME])
  /\ IntegerText(environ[environ[BATCH_JOB_ARRAY_INDEX_VAR_NAME]])

\* The offset is absent, empty, or an integer.
OffsetUsable ==
  \/ ~IsSet(BATCH_JOB_ARRAY_INDEX_OFFSET)
  \/ environ[BATCH_JOB_ARRAY_INDEX_OFFSET] = <<>>
  \/ IntegerText(environ[BATCH_JOB_ARRAY_INDEX_OFFSET])

\* C4: _compute_array_job_index returns offset + rawIndex, rawIndex the integer
\* in the variable that BATCH_JOB_ARRAY_INDEX_VAR_NAME names and offset the
\* integer in BATCH_JOB_ARRAY_INDEX_OFFSET, 0 when absent; the index is a
\* function of the environment alone.
C4_IndexIsOffsetPlusRaw ==
  (SlotMode /\ pc /= "start") =>
    /\ IndexResolved <=> (OffsetUsable /\ RawIndexGiven)
    /\ IndexResolved => task_index = OffsetValue + RawIndexValue
    /\ (IndexResolved /\ ~IsSet(BATCH_JOB_ARRAY_INDEX_OFFSET)) => task_index = RawIndexValue

\* Offset "10" and raw index "1" have resolved to 11.
C4_Witness ==
  /\ SlotMode /\ IndexResolved
  /\ IsSet(BATCH_JOB_ARRAY_INDEX_OFFSET) /\ IsSet(BATCH_JOB_ARRAY_INDEX_VAR_NAME)
  /\ IsSet(AWS_BATCH_JOB_ARRAY_INDEX)
  /\ environ[BATCH_JOB_ARRAY_INDEX_OFFSET] = <<"1", "0">>
  /\ environ[BATCH_JOB_ARRAY_INDEX_VAR_NAME] = AWS_BATCH_JOB_ARRAY_INDEX
  /\ environ[AWS_BATCH_JOB_ARRAY_INDEX] = <<"1">>
  /\ task_index = 11

\* s is a position of every input collection.
ValidSlot(s) == s >= 0 /\ \A k \in NamesOf(InputNames) : s < Len(kwargs[k])

\* C5: distributed-slot execution makes at most one element call and reads at
\* most one position of each collection; with s a position of every collection
\* it makes exactly one call, on the values at position s, reads position s of
\* every collection and nothing else, and returns the element computation's
\* own output (or raises its failure).
C5_SlotReadsOnlyItsOwn ==
  SlotMode =>
    /\ Len(calls) <= 1
    /\ \A k \in NamesOf(InputNames) : Cardinality({r \in reads : r[1] = k}) <= 1
    /\ (IndexResolved /\ ValidSlot(task_index)) =>
         /\ Len(calls) = 1
         /\ calls[1].pos = task_index
         /\ calls[1].inputs = InputsAt(task_index)
         /\ reads = {<<k, task_index>> : k \in NamesOf(InputNames)}
         /\ pc \in {"returned", "raised"}
         /\ pc = "returned" => result = ElementExecute(run_task, InputsAt(task_index)).val
         /\ pc = "raised" => error = "ElementExecutionFailure"

\* Slot 1 of a 3-element collection: one call, on the value at position 1.
C5_Witness ==
  /\ SlotMode /\ pc = "returned"
  /\ InputNames = <<"a">> /\ Len(kwargs["a"]) = 3
  /\ task_index = 1
  /\ Len(calls) = 1 /\ calls[1].inputs["a"] = 11
  /\ reads = {<<"a", 1>>}
  /\ result.tag = "tuple"

\* Resolution has failed and the element computation was not called.
FailedBeforeAnyCall ==
  pc = "raised" /\ error \in {"TypeError", "ValueError"} /\ calls = <<>>

\* C6 as stated: slot-index resolution fails, and no element call is made, when
\* the index-name variable is unset, the variable it names is unset, the named
\* variable holds no integer, or the offset variable is present and holds no
\* integer (an empty value included).
C6_ResolutionFails ==
  (SlotMode /\ pc /= "start") =>
    ((\/ ~RawIndexGiven
      \/ (IsSet(BATCH_JOB_ARRAY_INDEX_OFFSET)
            /\ ~IntegerText(environ[BATCH_JOB_ARRAY_INDEX_OFFSET])))
       => FailedBeforeAnyCall)

\* C6 as amended: slot-index resolution fails, and no element call is made,
\* when the index-name variable is unset, the variable it names is unset, the
\* named variable holds no integer, or the offset variable holds a non-empty
\* value that is no integer; a present but empty offset does not fail, it
\* counts as 0 like an absent one.
C6_ResolutionFailsUnlessEmptyOffset ==
  (SlotMode /\ pc /= "start") =>
    /\ (\/ ~RawIndexGiven
        \/ (IsSet(BATCH_JOB_ARRAY_INDEX_OFFSET)
              /\ environ[BATCH_JOB_ARRAY_INDEX_OFFSET] /= <<>>
              /\ ~IntegerText(environ[BATCH_JOB_ARRAY_INDEX_OFFSET])))
         => FailedBeforeAnyCall
    /\ (RawIndexGiven /\ IsSet(BATCH_JOB_ARRAY_INDEX_OFFSET)
          /\ environ[BATCH_JOB_ARRAY_INDEX_OFFSET] = <<>>)
         => (IndexResolved /\ task_index = RawIndexValue)

\* The offset is "-", no integer, beside a good raw index: resolution failed.
C6_Witness ==
  /\ SlotMode /\ FailedBeforeAnyCall /\ error = "ValueError"
  /\ RawIndexGiven
  /\ IsSet(BATCH_JOB_ARRAY_INDEX_OFFSET)
  /\ environ[BATCH_JOB_ARRAY_INDEX_OFFSET] = <<"-">>
  /\ kwargs /= <<>>

\* C7 as stated: whenever distributed-slot execution invokes the element
\* computation, the slot index it used is at least 0 and below the length of
\* every input collection.
C7_InvokedOnlyInRange ==
  (SlotMode /\ calls /= <<>>) =>
    \A k \in NamesOf(InputNames) : 0 <= task_index /\ task_index < Len(kwargs[k])

\* The type the output at position j of the interface has in this context.
ExpectedType(j) ==
  IF execution_state = LOCAL_WORKFLOW_EXECUTION
  THEN ListType(run_task.interface.outputs[j].type)
  ELSE run_task.interface.outputs[j].type

\* C9: _outputs_interface and get_type_for_output_var answer with the map
\* task's list-typed output interface exactly in LOCAL_WORKFLOW_EXECUTION and
\* with the wrapped task's own in every other context; they agree with each
\* other, and both interfaces have the same output names in the same order.
C9_OutputInterfaceDuality ==
  LET scalar == run_task.interface.outputs
  IN /\ Keys(MapInterface(run_task).outputs) = Keys(scalar)
     /\ \A j \in 1..Len(scalar) :
          /\ MapInterface(run_task).outputs[j].type = ListType(scalar[j].type)
          /\ MapInterface(run_task).outputs[j].type /= scalar[j].type
     /\ query.kind = "outputs_interface" =>
          /\ query.answer.ok
          /\ Keys(query.answer.val) = Keys(scalar)
          /\ \A j \in 1..Len(scalar) : query.answer.val[j].type = ExpectedType(j)
     /\ query.kind \in KeySet(scalar) =>
          /\ query.answer.ok
          /\ query.answer.val = ExpectedType(Lookup(scalar, query.kind))
          /\ LET iface == OutputsInterface(execution_state, run_task)
             IN query.answer.val = iface[Lookup(iface, query.kind)].type

\* In LOCAL_WORKFLOW_EXECUTION the interface asked for is the list-typed one.
C9_Witness ==
  /\ execution_state = LOCAL_WORKFLOW_EXECUTION
  /\ query.kind = "outputs_interface"
  /\ NumOutputs = 2
  /\ query.answer.val[1].type = ListType(ScalarType("str"))

============================================================================
